---------------------------- MODULE Spec2Model ----------------------------
(***************************************************************************)
(* Stock ChartBot v0.2 (Stock_ChartBot_v0.2.py): the extended-hours        *)
(* window, the window filter, the resampling of 30-minute bars, the        *)
(* detection of support and resistance levels, and the per-symbol batch    *)
(* run, as state machines.                                                 *)
(*                                                                         *)
(* Instants are integers: seconds since 00:00 UTC of day 0 of the modelled *)
(* horizon.  A datetime object is a record [utc, off]: the instant and the *)
(* UTC offset of the zone it is expressed in.  A bar is a record           *)
(* [t, o, h, l, c, v]; a DataFrame is a sequence of bars in index order.   *)
(***************************************************************************)
EXTENDS Integers, Sequences, FiniteSets, TLC

VARIABLES
    tzrule,      \* the US/Eastern rule in force over the horizon
    now,         \* the reference datetime handed to get_extended_period
    window,      \* <<extended_start, extended_end>> once computed, else <<>>
    closes,      \* input of the detector harness: a close-price sequence
    order,       \* input of the detector harness: the radius
    levels,      \* output of find_support_resistance: <<supports, resistances>>
    dpc,         \* position of a harness: "call" or "returned"
    series,      \* input of the resampling harness: a DataFrame
    timeframe,   \* input of the resampling harness: the timeframe identifier
    resampled,   \* output of the last resample_data call: [raised, value]
    timeframes,  \* TIMEFRAMES, the configured list of timeframe identifiers
    feed,        \* which DataFrames the data provider may return
    dir_exists,  \* whether OUTPUT_PATH exists
    pc,          \* position of the batch run
    idx,         \* index of the current symbol in FUTURES + STOCKS
    attempted,   \* the symbols generate_chart_for_symbol was called with, in order
    raw,         \* get_extended_data: the downloaded DataFrame
    columns_ok,  \* whether the DataFrame has a 'High' and a 'Low' column
    extended_data,      \* generate_chart_for_symbol: the window-filtered DataFrame
    extended_high,      \* generate_chart_for_symbol: max of High
    extended_low,       \* generate_chart_for_symbol: min of Low
    tfi,                \* generate_chart_for_symbol: position in TIMEFRAMES
    support_res_levels, \* generate_chart_for_symbol: timeframe -> levels
    fig,         \* <<timeframe -> levels drawn>> while the figure exists, else <<>>
    charts,      \* the chart files written to OUTPUT_PATH
    errors,      \* the symbols generate_charts logged an error for
    exc          \* the exception in flight, or "none"

harness == <<closes, order, levels, dpc, series, timeframe>>

locals == <<raw, columns_ok, extended_data, extended_high, extended_low, tfi,
            support_res_levels, fig, window, resampled>>

config == <<tzrule, now, timeframes, feed>>

batch == <<dir_exists, pc, idx, attempted, charts, errors, exc>>

vars == <<harness, locals, config, batch>>

hvarsDetect == <<series, timeframe, locals, config, batch>>

hvarsWindow == <<closes, order, levels, series, timeframe, raw, columns_ok,
                 extended_data, extended_high, extended_low, tfi,
                 support_res_levels, fig, resampled, timeframes, feed, batch>>

hvarsResample == <<closes, order, levels, raw, columns_ok, extended_data,
                   extended_high, extended_low, tfi, support_res_levels, fig,
                   window, now, timeframes, feed, batch>>

\* the values of the variables a specification does not use
IdleLocals ==
    /\ raw = <<>> /\ columns_ok = TRUE /\ extended_data = <<>>
    /\ extended_high = "unset" /\ extended_low = "unset" /\ tfi = 0
    /\ support_res_levels = <<>> /\ fig = <<>>

IdleBatch ==
    /\ dir_exists = TRUE /\ pc = "idle" /\ idx = 0 /\ attempted = <<>>
    /\ charts = {} /\ errors = {} /\ exc = "none"

IdleHarness ==
    /\ closes = <<>> /\ order = 0 /\ levels = <<>> /\ dpc = "idle"
    /\ series = <<>> /\ timeframe = ""

----------------------------------------------------------------------------
(* Bounds of the model *)

MaxLen == 6
MaxPrice == 3
MaxOrder == 2
MaxDay == 3
MaxBars == 3
MaxFeed == 5

----------------------------------------------------------------------------
(* Sequence helpers *)

Range(s) == {s[i] : i \in DOMAIN s}

SeqsUpTo(S, n) == UNION {[1..k -> S] : k \in 0..n}

Min2(a, b) == IF a <= b THEN a ELSE b

Max2(a, b) == IF a >= b THEN a ELSE b

\* numpy.take(a, i, mode='clip') with a zero-based index i
TakeClip(a, i) == a[Max2(0, Min2(i, Len(a) - 1)) + 1]

\* the increasing enumeration of a finite set of integers
RECURSIVE SortedSeq(_)
SortedSeq(S) ==
    IF S = {} THEN <<>>
    ELSE LET m == CHOOSE x \in S : \A y \in S : x <= y
         IN  <<m>> \o SortedSeq(S \ {m})

----------------------------------------------------------------------------
(* find_support_resistance and scipy.signal.argrelextrema *)

Compare(kind, x, y) == IF kind = "less" THEN x < y ELSE x > y

ArgrelextremaInterior(a, kind, ord) ==
    SortedSeq({i \in ord..(Len(a) - ord - 1) :
        \A s \in 1..ord : /\ Compare(kind, a[i + 1], a[i + s + 1])
                          /\ Compare(kind, a[i + 1], a[i - s + 1])})

\* argrelextrema(a, comparator, order=order) with the default mode='clip':
\* the zero-based indices i at which a[i] compares strictly against
\* a[clip(i+s)] and a[clip(i-s)] for every shift s in 1..order.
argrelextrema(a, kind, ord) ==
    SortedSeq({i \in 0..(Len(a) - 1) :
        \A s \in 1..ord : /\ Compare(kind, TakeClip(a, i), TakeClip(a, i + s))
                          /\ Compare(kind, TakeClip(a, i), TakeClip(a, i - s))})

FallbackLast(close_prices) == close_prices[Len(close_prices)]

\* level = float(close_prices[0])
FallbackLevel(close_prices) == close_prices[1]

\* len(close_prices) < (order * 2 + 1)
InsufficientData(n, ord) == n < ord * 2 + 1

\* find_support_resistance(data, order): <<supports, resistances>>
find_support_resistance(data, ord) ==
    IF data = <<>> THEN << <<>>, <<>> >>
    ELSE LET close_prices == [i \in DOMAIN data |-> data[i].c]
         IN  IF InsufficientData(Len(close_prices), ord)
             THEN << <<FallbackLevel(close_prices)>>, <<FallbackLevel(close_prices)>> >>
             ELSE LET supports_idx    == argrelextrema(close_prices, "less", ord)
                      resistances_idx == argrelextrema(close_prices, "greater", ord)
                  IN  << [k \in DOMAIN supports_idx |-> close_prices[supports_idx[k] + 1]],
                         [k \in DOMAIN resistances_idx |-> close_prices[resistances_idx[k] + 1]] >>

----------------------------------------------------------------------------
(* Time, and the US/Eastern zone of pytz *)

Hour == 60 * 60

Day == 24 * Hour

\* pandas' 30-minute index step (interval='30m')
HalfHour == 30 * 60

StdOffset == 0 - 5 * Hour

DstOffset == 0 - 4 * Hour

\* The local day of the horizon on which a daylight-saving transition falls
\* (at 02:00 local) when the rule in force has one.
TransitionDay == MaxDay - 1

TzRules == {"EST", "EDT", "spring", "fall"}

\* The instant of the transition: 02:00 EST = 07:00 UTC (spring forward),
\* 02:00 EDT = 06:00 UTC (fall back).
TransitionAt(rule) ==
    IF rule = "spring" THEN TransitionDay * Day + 7 * Hour
    ELSE TransitionDay * Day + 6 * Hour

\* eastern.utcoffset at the instant u
utcoffset(rule, u) ==
    CASE rule = "EST"    -> StdOffset
      [] rule = "EDT"    -> DstOffset
      [] rule = "spring" -> IF u < TransitionAt(rule) THEN StdOffset ELSE DstOffset
      [] rule = "fall"   -> IF u < TransitionAt(rule) THEN DstOffset ELSE StdOffset

\* the wall-clock reading (seconds since local 00:00 of day 0) of instant u
ToWall(rule, u) == u + utcoffset(rule, u)

DateOf(wall) == wall \div Day

localize_fixed(rule, wall) == wall - StdOffset

\* eastern.localize(naive, is_dst=False): the instant whose wall-clock reading
\* in US/Eastern is the naive datetime; standard time when the reading is
\* ambiguous or does not exist.
localize(rule, wall) ==
    LET cands == {u \in {wall - StdOffset, wall - DstOffset} : ToWall(rule, u) = wall}
    IN  IF Cardinality(cands) = 1 THEN CHOOSE u \in cands : TRUE
        ELSE wall - StdOffset

\* now.date(): the calendar date the datetime carries in its own zone
date(dt) == DateOf(dt.utc + dt.off)

get_extended_period_two_days(rule, dt) ==
    <<localize(rule, (date(dt) - 2) * Day + 18 * Hour),
      localize(rule, date(dt) * Day + 9 * Hour)>>

\* get_extended_period(now)
get_extended_period(rule, dt) ==
    LET today == date(dt)
        extended_start == localize(rule, (today - 1) * Day + 18 * Hour)
        extended_end   == localize(rule, today * Day + 9 * Hour)
    IN  <<extended_start, extended_end>>

\* datetime.now(eastern) at the instant u
NowEastern(rule, u) == [utc |-> u, off |-> utcoffset(rule, u)]

----------------------------------------------------------------------------
(* resample_data: DataFrame.resample(rule).agg({...}).dropna() on an index  *)
(* that is timezone-aware in US/Eastern                                     *)

SetMax(S) == CHOOSE x \in S : \A y \in S : x >= y

SetMin(S) == CHOOSE x \in S : \A y \in S : x <= y

RECURSIVE SeqSum(_)
SeqSum(s) == IF s = <<>> THEN 0 ELSE Head(s) + SeqSum(Tail(s))

FourHours == 4 * Hour

\* Timestamp.normalize(): local midnight of the timestamp's calendar day
normalize(rule, t) == localize(rule, DateOf(ToWall(rule, t)) * Day)

\* rule '1D' (a Day frequency): the bin edges are computed on the wall clock,
\* so a bin is a calendar day of the index's zone.  The bin number of t.
DayBin(rule, data, t) == DateOf(ToWall(rule, t))

DayLabel(rule, data, k) == localize(rule, k * Day)

\* rule '4h' (a Tick frequency) with the default origin='start_day': the bins
\* are consecutive spans of 4 elapsed hours counted from the local midnight of
\* the first timestamp's day.
TickBinEpoch(rule, data, t) == t \div FourHours

TickBin(rule, data, t) == (t - normalize(rule, data[1].t)) \div FourHours

TickLabel(rule, data, k) == normalize(rule, data[1].t) + k * FourHours

BinOf(rule, data, freq, t) ==
    IF freq = "1D" THEN DayBin(rule, data, t) ELSE TickBin(rule, data, t)

LabelOf(rule, data, freq, k) ==
    IF freq = "1D" THEN DayLabel(rule, data, k) ELSE TickLabel(rule, data, k)

\* One row of .agg({'Open': 'first', 'High': 'max', 'Low': 'min',
\* 'Close': 'last', 'Volume': 'sum'}) for the bars of one bin.  A cell is a
\* sequence: <<x>> for the value x, <<>> for NaN (an empty bin aggregates to
\* NaN in every price column and to 0 in Volume).
AggRow(label, members) ==
    [t |-> label,
     o |-> IF members = <<>> THEN <<>> ELSE <<members[1].o>>,
     h |-> IF members = <<>> THEN <<>> ELSE <<SetMax({members[i].h : i \in DOMAIN members})>>,
     l |-> IF members = <<>> THEN <<>> ELSE <<SetMin({members[i].l : i \in DOMAIN members})>>,
     c |-> IF members = <<>> THEN <<>> ELSE <<members[Len(members)].c>>,
     v |-> <<SeqSum([i \in DOMAIN members |-> members[i].v])>>]

\* dropna() keeps the rows without a NaN cell
NotNa(row) == row.o # <<>> /\ row.h # <<>> /\ row.l # <<>> /\ row.c # <<>> /\ row.v # <<>>

Cell(x) == IF x = <<>> THEN "NaN" ELSE x[1]

Resample(rule, data, freq) ==
    IF data = <<>> THEN <<>>
    ELSE LET first == BinOf(rule, data, freq, data[1].t)
             last  == BinOf(rule, data, freq, data[Len(data)].t)
             InBin(k, bar) == BinOf(rule, data, freq, bar.t) = k
             agg   == [i \in 1..(last - first + 1) |->
                          AggRow(LabelOf(rule, data, freq, first + i - 1),
                                 SelectSeq(data, LAMBDA bar : InBin(first + i - 1, bar)))]
             kept  == SelectSeq(agg, NotNa)
         IN  [i \in DOMAIN kept |->
                 [t |-> kept[i].t, o |-> Cell(kept[i].o), h |-> Cell(kept[i].h),
                  l |-> Cell(kept[i].l), c |-> Cell(kept[i].c), v |-> Cell(kept[i].v)]]

resample_data_lenient(rule, data, tf) ==
    IF tf = "1d" THEN [raised |-> "none", value |-> Resample(rule, data, "1D")]
    ELSE IF tf = "4h" THEN [raised |-> "none", value |-> Resample(rule, data, "4h")]
    ELSE [raised |-> "none", value |-> data]

\* resample_data(data, timeframe): [raised |-> the exception or "none",
\* value |-> the DataFrame returned]
resample_data(rule, data, tf) ==
    IF tf = "1d" THEN [raised |-> "none", value |-> Resample(rule, data, "1D")]
    ELSE IF tf = "4h" THEN [raised |-> "none", value |-> Resample(rule, data, "4h")]
    ELSE IF tf = "30m" THEN [raised |-> "none", value |-> data]
    ELSE [raised |-> "ValueError", value |-> <<>>]

----------------------------------------------------------------------------
(* Resampling harness: resample_data applied to every series of at most     *)
(* MaxBars bars on the half-hour grid around a zone transition              *)

\* the two bars of the aggregation example, as the shapes a bar can take
BarShapes == { [o |-> 10, h |-> 12, l |-> 9,  c |-> 11, v |-> 100],
               [o |-> 11, h |-> 13, l |-> 10, c |-> 12, v |-> 200] }

\* wall-clock readings, <<day, half-hours since 00:00>>
WallGrid == { <<TransitionDay - 1, 36>>, <<TransitionDay - 1, 47>>,
              <<TransitionDay, 1>>, <<TransitionDay, 7>>, <<TransitionDay, 8>>,
              <<TransitionDay, 18>>, <<TransitionDay, 36>>, <<TransitionDay, 41>>,
              <<TransitionDay + 1, 1>>, <<TransitionDay + 1, 2>>,
              <<TransitionDay + 1, 8>>, <<TransitionDay + 1, 17>> }

GridInstants(rule) == {localize(rule, w[1] * Day + w[2] * HalfHour) : w \in WallGrid}

MakeBar(t, shape) ==
    [t |-> t, o |-> shape.o, h |-> shape.h, l |-> shape.l, c |-> shape.c, v |-> shape.v]

\* the DataFrames with index ts (increasing) and rows of the given shapes
Frames(ts) ==
    LET index == SortedSeq(ts)
    IN  {[i \in DOMAIN index |-> MakeBar(index[i], f[i])] : f \in [DOMAIN index -> BarShapes]}

ResampleInit ==
    /\ tzrule \in TzRules
    /\ \E ts \in SUBSET GridInstants(tzrule) :
          /\ Cardinality(ts) <= MaxBars
          /\ series \in Frames(ts)
    /\ timeframe \in {"1d", "4h", "30m", "bogus"}
    /\ resampled = <<>>
    /\ dpc = "call"
    /\ now = <<>> /\ window = <<>> /\ closes = <<>> /\ order = 0 /\ levels = <<>>
    /\ timeframes = <<>> /\ feed = "none"
    /\ IdleLocals /\ IdleBatch

DoResample ==
    /\ dpc = "call"
    /\ resampled' = resample_data(tzrule, series, timeframe)
    /\ dpc' = "returned"
    /\ UNCHANGED <<tzrule, series, timeframe>>
    /\ UNCHANGED hvarsResample

ResampleNext == DoResample

SpecResample == ResampleInit /\ [][ResampleNext]_vars

----------------------------------------------------------------------------
(* Window harness: get_extended_period applied to reference datetimes in    *)
(* US/Eastern, UTC and Asia/Tokyo, over every hour of days 1..MaxDay        *)

HourInstants == {d * Day + h * Hour : d \in 1..MaxDay, h \in 0..23}

WindowInit ==
    /\ tzrule \in TzRules
    /\ \E u \in HourInstants : \E off \in {utcoffset(tzrule, u), 0, 9 * Hour} :
           now = [utc |-> u, off |-> off]
    /\ window = <<>>
    /\ dpc = "call"
    /\ closes = <<>> /\ order = 0 /\ levels = <<>>
    /\ series = <<>> /\ timeframe = "" /\ resampled = <<>>
    /\ timeframes = <<>> /\ feed = "none"
    /\ IdleLocals /\ IdleBatch

ComputeWindow ==
    /\ dpc = "call"
    /\ window' = get_extended_period(tzrule, now)
    /\ dpc' = "returned"
    /\ UNCHANGED <<tzrule, now>>
    /\ UNCHANGED hvarsWindow

WindowNext == ComputeWindow

SpecWindow == WindowInit /\ [][WindowNext]_vars

----------------------------------------------------------------------------
(* Detector harness: the pure function applied to every bounded input *)

DetectInit ==
    /\ closes \in SeqsUpTo(1..MaxPrice, MaxLen)
    /\ order \in 1..MaxOrder
    /\ levels = <<>>
    /\ dpc = "call"
    /\ tzrule = "EST" /\ now = <<>> /\ window = <<>>
    /\ series = <<>> /\ timeframe = "" /\ resampled = <<>>
    /\ timeframes = <<>> /\ feed = "none"
    /\ IdleLocals /\ IdleBatch

\* a DataFrame of half-hourly bars with the given closes
FrameOfCloses(cs) ==
    [i \in DOMAIN cs |-> [t |-> i * HalfHour, o |-> cs[i], h |-> cs[i], l |-> cs[i],
                          c |-> cs[i], v |-> 0]]

Detect ==
    /\ dpc = "call"
    /\ levels' = find_support_resistance(FrameOfCloses(closes), order)
    /\ dpc' = "returned"
    /\ UNCHANGED <<closes, order>>
    /\ UNCHANGED hvarsDetect

DetectNext == Detect

SpecDetect == DetectInit /\ [][DetectNext]_vars

----------------------------------------------------------------------------
(* Configuration *)

FUTURES == <<"ES=F", "NQ=F">>

STOCKS == <<"AAPL", "MSFT", "NVDA", "AMZN", "META", "TSLA", "GOOGL">>

TIMEFRAMES == <<"1d", "4h", "30m">>

\* the order in which generate_charts goes through the symbols
AllSymbols == FUTURES \o STOCKS

\* display_symbol of the symbol at position i
DisplaySymbol(i) ==
    IF i <= Len(FUTURES) THEN (IF AllSymbols[i] = "ES=F" THEN "ES" ELSE "NQ")
    ELSE AllSymbols[i]

----------------------------------------------------------------------------
(* get_extended_data *)

InWindowExclusive(t, w) == t > w[1] /\ t < w[2]

\* (data.index >= extended_start) & (data.index <= extended_end)
InWindow(t, w) == t >= w[1] /\ t <= w[2]

FilterWindow(data, w) == SelectSeq(data, LAMBDA bar : InWindow(bar.t, w))

\* The instants at which the provider may report a bar, around the window w.
FeedInstants(w) ==
    { w[1] - Day, w[1] - 1, w[1], w[1] + 9 * HalfHour, w[1] + 9 * Hour,
      w[1] + 12 * Hour, w[2], w[2] + 1 }

\* What yf.download may return: the rich feed holds every DataFrame of at most
\* MaxFeed bars at the feed instants; the lean feed holds an empty DataFrame,
\* one with a single bar before the window and one with two bars inside it.
Downloads(kind, w) ==
    IF kind = "rich"
    THEN UNION {Frames(ts) : ts \in {x \in SUBSET FeedInstants(w) : Cardinality(x) <= MaxFeed}}
    ELSE { <<>>,
           <<MakeBar(w[1] - 1, CHOOSE b \in BarShapes : b.o = 10)>>,
           <<MakeBar(w[1], CHOOSE b \in BarShapes : b.o = 10),
             MakeBar(w[2], CHOOSE b \in BarShapes : b.o = 11)>> }

\* get_extended_data(symbol), entered from generate_chart_for_symbol
GetExtendedData ==
    /\ pc = "get_extended_data"
    /\ window' = get_extended_period(tzrule, now)
    /\ \E raises \in BOOLEAN, data \in Downloads(feed, get_extended_period(tzrule, now)),
          cols \in BOOLEAN :
          IF raises
          THEN /\ data = <<>> /\ cols
               /\ exc' = "Exception"
               /\ pc' = "except"
               /\ UNCHANGED <<raw, columns_ok, extended_data>>
          ELSE /\ raw' = data
               /\ columns_ok' = cols
               /\ extended_data' = IF data = <<>> THEN data
                                   ELSE FilterWindow(data, window')
               /\ pc' = "check"
               /\ exc' = "none"
    /\ UNCHANGED <<extended_high, extended_low, tfi, support_res_levels, fig, resampled>>
    /\ UNCHANGED <<harness, config, dir_exists, idx, attempted, charts, errors>>

----------------------------------------------------------------------------
(* generate_chart_for_symbol and plot_extended_chart *)

NeverSkip(data) == FALSE

\* if extended_data.empty: return
NoExtendedData(data) == data = <<>>

\* extended_data['High'].max(), NaN on no rows
ColumnMax(vals) == IF vals = {} THEN "NaN" ELSE SetMax(vals)

ColumnMin(vals) == IF vals = {} THEN "NaN" ELSE SetMin(vals)

\* lines 217-227: the empty check and the extended high and low
CheckData ==
    /\ pc = "check"
    /\ IF NoExtendedData(extended_data) \/ ~columns_ok
       THEN /\ pc' = "return"
            /\ UNCHANGED <<extended_high, extended_low, support_res_levels, tfi>>
       ELSE /\ extended_high' = ColumnMax({extended_data[i].h : i \in DOMAIN extended_data})
            /\ extended_low' = ColumnMin({extended_data[i].l : i \in DOMAIN extended_data})
            /\ support_res_levels' = <<>>
            /\ tfi' = 1
            /\ pc' = "timeframes"
    /\ UNCHANGED <<raw, columns_ok, extended_data, fig, window, resampled>>
    /\ UNCHANGED <<harness, config, dir_exists, idx, attempted, charts, errors, exc>>

\* order = 1 if tf == '1d' else (2 if tf == '4h' else 3)
OrderOf(tf) == IF tf = "1d" THEN 1 ELSE (IF tf = "4h" THEN 2 ELSE 3)

OrderMapSwapped(tf) == IF tf = "1d" THEN 2 ELSE (IF tf = "4h" THEN 1 ELSE 3)

\* order_map = {'1d': 1, '4h': 2, '30m': 3}; order_map.get(tf, 3)
OrderMap(tf) ==
    CASE tf = "1d"  -> 1
      [] tf = "4h"  -> 2
      [] tf = "30m" -> 3
      [] OTHER      -> 3

\* d[key] = value on a dict held as a function
Put(d, key, value) ==
    [k \in (DOMAIN d) \cup {key} |-> IF k = key THEN value ELSE d[k]]

\* one turn of the loop of lines 230-234
TimeframeStep ==
    /\ pc = "timeframes" /\ tfi <= Len(timeframes)
    /\ LET tf == timeframes[tfi]
           r  == resample_data(tzrule, extended_data, tf)
       IN  /\ resampled' = r
           /\ IF r.raised # "none"
              THEN /\ exc' = r.raised
                   /\ pc' = "except"
                   /\ UNCHANGED <<support_res_levels, tfi>>
              ELSE /\ support_res_levels' =
                          Put(support_res_levels, tf,
                              find_support_resistance(r.value, OrderOf(tf)))
                   /\ tfi' = tfi + 1
                   /\ UNCHANGED <<pc, exc>>
    /\ UNCHANGED <<raw, columns_ok, extended_data, extended_high, extended_low, fig, window>>
    /\ UNCHANGED <<harness, config, dir_exists, idx, attempted, charts, errors>>

\* plot_extended_chart, called at line 236: the levels it draws per timeframe
Plot ==
    /\ pc = "timeframes" /\ tfi > Len(timeframes)
    /\ IF \E i \in DOMAIN timeframes :
             resample_data(tzrule, extended_data, timeframes[i]).raised # "none"
       THEN /\ exc' = "ValueError"
            /\ pc' = "except"
            /\ UNCHANGED fig
       ELSE /\ fig' = << [tf \in Range(timeframes) |->
                            find_support_resistance(
                                resample_data(tzrule, extended_data, tf).value,
                                OrderMap(tf))] >>
            /\ pc' = "save"
            /\ UNCHANGED exc
    /\ UNCHANGED <<raw, columns_ok, extended_data, extended_high, extended_low, tfi,
                   support_res_levels, window, resampled>>
    /\ UNCHANGED <<harness, config, dir_exists, idx, attempted, charts, errors>>

\* the file name of lines 238-239: the US/Eastern date and the display symbol
FileName == [date |-> DateOf(ToWall(tzrule, now.utc)), symbol |-> DisplaySymbol(idx)]

\* fig.savefig(filepath); plt.close(fig)
Save ==
    /\ pc = "save"
    /\ \E written \in BOOLEAN :
          IF written
          THEN /\ charts' = charts \cup {FileName}
               /\ fig' = <<>>
               /\ pc' = "return"
               /\ UNCHANGED exc
          ELSE /\ exc' = "OSError"
               /\ pc' = "except"
               /\ UNCHANGED <<charts, fig>>
    /\ UNCHANGED <<raw, columns_ok, extended_data, extended_high, extended_low, tfi,
                   support_res_levels, window, resampled>>
    /\ UNCHANGED <<harness, config, dir_exists, idx, attempted, errors>>

----------------------------------------------------------------------------
(* generate_charts *)

\* ensure_output_directory()
EnsureOutputDirectory ==
    /\ pc = "start"
    /\ dir_exists' = TRUE
    /\ idx' = 1
    /\ pc' = "loop"
    /\ UNCHANGED <<harness, locals, config, attempted, charts, errors, exc>>

\* the two for loops: the call of generate_chart_for_symbol for the next symbol
CallSymbol ==
    /\ pc = "loop" /\ idx <= Len(AllSymbols)
    /\ attempted' = Append(attempted, AllSymbols[idx])
    /\ pc' = "get_extended_data"
    /\ UNCHANGED <<harness, locals, config, dir_exists, idx, charts, errors, exc>>

\* the locals of generate_chart_for_symbol no longer exist once it is left
DropLocals ==
    /\ raw' = <<>> /\ columns_ok' = TRUE /\ extended_data' = <<>>
    /\ extended_high' = "unset" /\ extended_low' = "unset" /\ tfi' = 0
    /\ support_res_levels' = <<>> /\ fig' = <<>> /\ window' = <<>>
    /\ resampled' = <<>>

\* generate_chart_for_symbol returned
SymbolReturned ==
    /\ pc = "return"
    /\ idx' = idx + 1
    /\ pc' = "loop"
    /\ DropLocals
    /\ UNCHANGED <<harness, config, dir_exists, attempted, charts, errors, exc>>

CatchesValueErrorOnly(e) == e = "ValueError"

\* except Exception as e: every exception of the model is an Exception
Catches(e) == e \in {"Exception", "ValueError", "OSError"}

\* generate_chart_for_symbol raised: logger.error and on to the next symbol
SymbolRaised ==
    /\ pc = "except"
    /\ IF Catches(exc)
       THEN /\ errors' = errors \cup {AllSymbols[idx]}
            /\ idx' = idx + 1
            /\ pc' = "loop"
            /\ exc' = "none"
       ELSE /\ pc' = "raised"
            /\ UNCHANGED <<errors, idx, exc>>
    /\ DropLocals
    /\ UNCHANGED <<harness, config, dir_exists, attempted, charts>>

\* the loops are through: generate_charts returns
Finish ==
    /\ pc = "loop" /\ idx > Len(AllSymbols)
    /\ pc' = "done"
    /\ UNCHANGED <<harness, locals, config, dir_exists, idx, attempted, charts, errors, exc>>

\* datetime.now(eastern) at 09:00 US/Eastern of the transition day and of the
\* day after it
RunTimes(rule) ==
    {NowEastern(rule, localize(rule, d * Day + 9 * Hour)) :
        d \in {TransitionDay, TransitionDay + 1}}

Init ==
    /\ tzrule \in {"EST", "spring"}
    /\ now = NowEastern(tzrule, localize(tzrule, (TransitionDay + 1) * Day + 9 * Hour))
    /\ timeframes = TIMEFRAMES
    /\ feed = "lean"
    /\ dir_exists \in BOOLEAN
    /\ pc = "start" /\ idx = 0 /\ attempted = <<>>
    /\ charts = {} /\ errors = {} /\ exc = "none"
    /\ IdleLocals /\ window = <<>> /\ resampled = <<>>
    /\ IdleHarness

SymbolStep == GetExtendedData \/ CheckData \/ TimeframeStep \/ Plot \/ Save

Next ==
    \/ EnsureOutputDirectory
    \/ CallSymbol
    \/ SymbolStep
    \/ SymbolReturned
    \/ SymbolRaised
    \/ Finish

Spec == Init /\ [][Next]_vars

----------------------------------------------------------------------------
(* One call of generate_chart_for_symbol, on every DataFrame of the rich    *)
(* feed and with a recognised and an unrecognised list of timeframes        *)

SymbolInit ==
    /\ tzrule \in TzRules
    /\ now \in RunTimes(tzrule)
    /\ timeframes \in {TIMEFRAMES, <<"1d", "bogus", "30m">>}
    /\ feed = "rich"
    /\ dir_exists = TRUE
    /\ pc = "get_extended_data" /\ idx = 1 /\ attempted = <<AllSymbols[1]>>
    /\ charts = {} /\ errors = {} /\ exc = "none"
    /\ IdleLocals /\ window = <<>> /\ resampled = <<>>
    /\ IdleHarness

SymbolNext == SymbolStep

SpecSymbol == SymbolInit /\ [][SymbolNext]_vars

----------------------------------------------------------------------------
(* Properties of find_support_resistance (checked under SpecDetect) *)

\* the values of a at the zero-based indices S, in ascending index order
ValuesAt(a, S) == LET at == SortedSeq(S) IN [k \in DOMAIN at |-> a[at[k] + 1]]

\* i is a strict extremum of a among the indices lo..hi
StrictIn(a, kind, i, lo, hi) ==
    \A j \in lo..hi : j # i => Compare(kind, a[i + 1], a[j + 1])

\* the strict extrema of the full windows [i-radius, i+radius]
FullWindowExtrema(a, kind, radius) ==
    {i \in radius..(Len(a) - radius - 1) : StrictIn(a, kind, i, i - radius, i + radius)}

\* the strict extrema of the windows cut at the ends of the sequence, the
\* first and the last index excluded
CutWindowExtrema(a, kind, radius) ==
    {i \in 1..(Len(a) - 2) :
        StrictIn(a, kind, i, Max2(0, i - radius), Min2(Len(a) - 1, i + radius))}

\* C1, as claimed: on a sequence of at least 2*radius+1 closes the supports
\* (resistances) are exactly the closes at the indices radius <= i < len-radius
\* that are strictly less (greater) than every other close of
\* [i-radius, i+radius], in ascending index order; no index outside
\* radius..len-radius-1 is reported.
C1_FullWindowOnly ==
    (dpc = "returned" /\ Len(closes) >= 2 * order + 1) =>
        levels = << ValuesAt(closes, FullWindowExtrema(closes, "less", order)),
                    ValuesAt(closes, FullWindowExtrema(closes, "greater", order)) >>

\* C1, amended: the supports (resistances) are exactly the closes at the
\* indices 1 <= i <= len-2 that are strictly less (greater) than every other
\* close of the window [i-radius, i+radius] cut at the two ends of the
\* sequence, in ascending index order; the first and the last index are never
\* reported.
C1_CutWindow ==
    (dpc = "returned" /\ Len(closes) >= 2 * order + 1) =>
        levels = << ValuesAt(closes, CutWindowExtrema(closes, "less", order)),
                    ValuesAt(closes, CutWindowExtrema(closes, "greater", order)) >>

\* C1 witness: a call with radius 2 on at least 5 closes that reports both a
\* support and a resistance, one of them at an index below the radius.
C1_Witness ==
    /\ dpc = "returned" /\ order >= 2 /\ Len(closes) >= 2 * order + 1
    /\ levels[1] # <<>> /\ levels[2] # <<>>
    /\ 1 \in CutWindowExtrema(closes, "less", order)

\* C2: the empty series gives ([], []); a non-empty series shorter than
\* 2*radius+1 gives supports = resistances = [close[0]].
C2_Fallback ==
    dpc = "returned" =>
        /\ closes = <<>> => levels = << <<>>, <<>> >>
        /\ (closes # <<>> /\ Len(closes) < 2 * order + 1) =>
               levels = << <<closes[1]>>, <<closes[1]>> >>

\* C2 witness: two closes that differ, radius 2, the fallback taken.
C2_Witness ==
    /\ dpc = "returned" /\ order = 2 /\ Len(closes) = 2 * order
    /\ closes[1] # closes[Len(closes)]
    /\ levels[1] = <<closes[1]>>

----------------------------------------------------------------------------
(* Properties of get_extended_period (checked under SpecWindow) *)

\* the calendar date of the instant in US/Eastern
EasternDate(rule, dt) == DateOf(ToWall(rule, dt.utc))

WindowIs(rule, w, D) ==
    /\ ToWall(rule, w[1]) = (D - 1) * Day + 18 * Hour
    /\ ToWall(rule, w[2]) = D * Day + 9 * Hour
    /\ w[1] < w[2]

----------------------------------------------------------------------------
(* Properties of resample_data (checked under SpecResample) *)

RECURSIVE SetSum(_, _)
SetSum(data, I) ==
    IF I = {} THEN 0
    ELSE LET i == CHOOSE x \in I : TRUE IN data[i].v + SetSum(data, I \ {i})

\* the number of the bucket of instant t on a grid
GridKey(grid, rule, data, t) ==
    CASE grid = "utc-day"   -> t \div Day
      [] grid = "wall-day"  -> ToWall(rule, t) \div Day
      [] grid = "utc-4h"    -> t \div FourHours
      [] grid = "wall-4h"   -> ToWall(rule, t) \div FourHours
      [] grid = "first-day-4h" ->
            LET t1 == data[1].t
                guess == t1 - (ToWall(rule, t1) % Day)
                midnight == CHOOSE u \in {guess - Hour, guess, guess + Hour} :
                                /\ ToWall(rule, u) % Day = 0
                                /\ DateOf(ToWall(rule, u)) = DateOf(ToWall(rule, t1))
            IN  (t - midnight) \div FourHours

\* open, high, low, close and volume of one bucket: open of the earliest bar,
\* greatest high, least low, close of the latest bar, sum of the volumes
BucketBar(data, I) ==
    LET earliest == CHOOSE i \in I : \A j \in I : data[i].t <= data[j].t
        latest   == CHOOSE i \in I : \A j \in I : data[i].t >= data[j].t
    IN  [o |-> data[earliest].o,
         h |-> SetMax({data[i].h : i \in I}),
         l |-> SetMin({data[i].l : i \in I}),
         c |-> data[latest].c,
         v |-> SetSum(data, I)]

\* one bar per bucket of the grid that holds a bar, in chronological order
OnePerBucket(grid, rule, data) ==
    LET keys == SortedSeq({GridKey(grid, rule, data, data[i].t) : i \in DOMAIN data})
    IN  [n \in DOMAIN keys |->
            BucketBar(data, {i \in DOMAIN data :
                                 GridKey(grid, rule, data, data[i].t) = keys[n]})]

Ohlcv(frame) ==
    [i \in DOMAIN frame |-> [o |-> frame[i].o, h |-> frame[i].h, l |-> frame[i].l,
                             c |-> frame[i].c, v |-> frame[i].v]]

Increasing(frame) == \A i \in 1..(Len(frame) - 1) : frame[i].t < frame[i + 1].t

\* C3, as claimed: for '1d' and '4h' the result holds exactly one bar per
\* non-empty bucket of a fixed grid aligned to the epoch (of UTC, or of the
\* wall clock of the index's zone), in chronological order, each bar
\* aggregating its bucket.
C3_FixedGrid ==
    (dpc = "returned" /\ timeframe \in {"1d", "4h"}) =>
        LET day == timeframe = "1d"
            out == Ohlcv(resampled.value)
        IN  /\ resampled.raised = "none"
            /\ \/ out = OnePerBucket(IF day THEN "utc-day" ELSE "utc-4h", tzrule, series)
               \/ out = OnePerBucket(IF day THEN "wall-day" ELSE "wall-4h", tzrule, series)

\* C3, amended: the result holds exactly one bar per non-empty bucket, in
\* chronological order, each bar aggregating its bucket (open of the earliest
\* bar, greatest high, least low, close of the latest bar, sum of volumes), so
\* it is no longer than the input; the '1d' buckets are the calendar days of
\* US/Eastern, and the '4h' buckets are the consecutive spans of four elapsed
\* hours counted from the US/Eastern midnight of the first bar's day.
C3_StartDayGrid ==
    (dpc = "returned" /\ timeframe \in {"1d", "4h"}) =>
        LET grid == IF timeframe = "1d" THEN "wall-day" ELSE "first-day-4h"
            out  == resampled.value
        IN  /\ resampled.raised = "none"
            /\ Len(out) <= Len(series)
            /\ Len(out) = Cardinality({GridKey(grid, tzrule, series, series[i].t) :
                                          i \in DOMAIN series})
            /\ Ohlcv(out) = OnePerBucket(grid, tzrule, series)
            /\ Increasing(out)
            /\ \A n \in DOMAIN out :
                  \E i \in DOMAIN series :
                     /\ out[n].t <= series[i].t
                     /\ GridKey(grid, tzrule, series, out[n].t)
                            = GridKey(grid, tzrule, series, series[i].t)

\* C3 witness: three bars, two of them in one 4-hour bucket and an empty
\* bucket between that bucket and the third bar's: two bars come out.
C3_Witness ==
    /\ dpc = "returned" /\ timeframe = "4h" /\ Len(series) = 3
    /\ Len(resampled.value) = 2
    /\ series[3].t - series[1].t > 2 * FourHours
    /\ resampled.value[1].v = series[1].v + series[2].v
    /\ series[1].c # series[2].c

----------------------------------------------------------------------------
(* Properties of one call of generate_chart_for_symbol (under SpecSymbol) *)

\* get_extended_data has returned a DataFrame (it did not raise)
DataReturned == pc # "get_extended_data" /\ ~(pc = "except" /\ exc = "Exception")

\* C5: the filter keeps exactly the bars with start <= timestamp <= end, both
\* bounds inclusive, in their original order.
C5_InclusiveFilter ==
    DataReturned =>
        /\ \A i \in DOMAIN raw :
              (\E j \in DOMAIN extended_data : extended_data[j] = raw[i])
                  <=> (window[1] <= raw[i].t /\ raw[i].t <= window[2])
        /\ Range(extended_data) \subseteq Range(raw)
        /\ Increasing(extended_data)

\* C5 witness: bars exactly at start, exactly at end and one second after end
\* were downloaded, and exactly the first two were kept.
C5_Witness ==
    /\ DataReturned
    /\ {window[1], window[2], window[2] + 1} \subseteq {raw[i].t : i \in DOMAIN raw}
    /\ {extended_data[i].t : i \in DOMAIN extended_data} = {window[1], window[2]}

Unrecognised(tf) == tf \notin {"1d", "4h", "30m"}

\* C7: with an unrecognised identifier in the list of timeframes no chart is
\* ever plotted or saved for the symbol, and a call that reaches the loop over
\* the timeframes ends with the unsupported-timeframe error.
C7_FailFast ==
    (\E i \in DOMAIN timeframes : Unrecognised(timeframes[i])) =>
        /\ fig = <<>> /\ charts = {} /\ pc # "save"
        /\ (pc \in {"return", "except"} /\ extended_data # <<>> /\ columns_ok) =>
               (pc = "except" /\ exc = "ValueError")

\* C7 witness: the call failed on the second identifier with the levels of
\* the first already computed.
C7_Witness ==
    /\ pc = "except" /\ exc = "ValueError"
    /\ tfi = 2 /\ Unrecognised(timeframes[tfi])
    /\ DOMAIN support_res_levels = {"1d"}
    /\ charts = {}

\* C8: when the window-filtered series is empty the call returns without
\* raising and without resampling, detecting levels, plotting or saving.
C8_NoData ==
    (DataReturned /\ extended_data = <<>>) =>
        /\ pc \in {"check", "return"} /\ exc = "none"
        /\ resampled = <<>> /\ support_res_levels = <<>> /\ tfi = 0
        /\ fig = <<>> /\ charts = {}

\* C8 witness: bars were downloaded, none of them inside the window, and the
\* call has returned.
C8_Witness == pc = "return" /\ raw # <<>> /\ extended_data = <<>> /\ columns_ok

\* C9: both places use radius 1 for '1d', 2 for '4h' and 3 for '30m', and the
\* levels plot_extended_chart draws are, per timeframe, the ones stored in
\* support_res_levels.
C9_SameLevels ==
    /\ \A i \in DOMAIN TIMEFRAMES : OrderOf(TIMEFRAMES[i]) = OrderMap(TIMEFRAMES[i])
    /\ <<OrderMap("1d"), OrderMap("4h"), OrderMap("30m")>> = <<1, 2, 3>>
    /\ pc = "save" => fig = <<support_res_levels>>

\* C9 witness: a chart about to be saved whose 4-hour levels are detected
\* extrema, not the fallback.
C9_Witness ==
    /\ pc = "save"
    /\ support_res_levels["4h"][1] # support_res_levels["4h"][2]
    /\ fig[1]["4h"] = support_res_levels["4h"]

\* the US/Eastern calendar dates of the bars of a DataFrame
DatesOf(rule, data) == {DateOf(ToWall(rule, data[i].t)) : i \in DOMAIN data}

\* C10: a non-empty window-filtered series holds bars of at most 2 calendar
\* days, so the '1d' levels are the fallback: supports = resistances = [the
\* close of the first daily bar], the close of the last bar of the first day.
C10_DailyFallback ==
    ("1d" \in DOMAIN support_res_levels) =>
        LET dates    == DatesOf(tzrule, extended_data)
            firstDay == SetMin(dates)
            onFirst  == {i \in DOMAIN extended_data :
                            DateOf(ToWall(tzrule, extended_data[i].t)) = firstDay}
            level    == extended_data[SetMax(onFirst)].c
        IN  /\ Cardinality(dates) <= 2
            /\ Cardinality(dates) < 2 * OrderOf("1d") + 1
            /\ support_res_levels["1d"] = << <<level>>, <<level>> >>

\* C10 witness: bars of two calendar days, the first day's bars closing at
\* different prices, and the '1d' levels stored.
C10_Witness ==
    /\ "1d" \in DOMAIN support_res_levels
    /\ Cardinality(DatesOf(tzrule, extended_data)) = 2
    /\ Len(extended_data) >= 3
    /\ extended_data[1].c # extended_data[2].c
    /\ DateOf(ToWall(tzrule, extended_data[1].t)) = DateOf(ToWall(tzrule, extended_data[2].t))
    /\ support_res_levels["1d"][1] = <<extended_data[2].c>>

----------------------------------------------------------------------------
(* Properties of generate_charts (checked under Spec) *)

SavedSymbols == {f.symbol : f \in charts}

=============================================================================
